---- MODULE Spec2Model ----
(***************************************************************************)
(* A model of the FIXR API client (src/client.go): the Client value, the   *)
(* request dispatcher (get/post/req), the response envelope decode         *)
(* (decodeJSONResponse with error()/clearError()) and the four public      *)
(* operations Logon, Event, Promo and Book.                                *)
(*                                                                         *)
(* A call is split at the points where it blocks or touches the shared     *)
(* Client: hand the request to the transport, the transport's answer, the  *)
(* JSON decode into the target, the error() check, the deferred            *)
(* clearError(), the deferred Body.Close() and the return.                 *)
(*                                                                         *)
(* Texts are kept as whole strings.  An error is the sequence of the       *)
(* message parts that errors.Wrap / fmt.Errorf join (outermost first), so  *)
(* "the message contains X" is "X is one of the parts"; the nil error is   *)
(* the empty sequence.                                                     *)
(***************************************************************************)
EXTENDS Integers, Sequences, FiniteSets, TLC

VARIABLES client, pc, call, keyCtr, sentKeys, logonOK

vars == <<client, pc, call, keyCtr, sentKeys, logonOK>>

(***************************************************************************)
(* Bounds                                                                  *)
(***************************************************************************)
\* number of purchase keys the key generator hands out before paid
\* bookings are no longer started
MaxKeys == 2

\* the callers that may use the one Client; the one in SeqCallers is the only one that
\* calls in the sequential specification
NumCallers == 2
Callers == 1..NumCallers
SeqCallers == {1}

(***************************************************************************)
(* Constants of the program                                                *)
(***************************************************************************)
bookingURL == "https://api.fixr-app.com/api/v2/app/booking"
promoURL == "https://api.fixr-app.com/api/v2/app/promo_code/%d/%s"
loginURL == "https://api.fixr-app.com/api/v2/app/user/authenticate/with-email"
eventURL == "https://api.fixr-app.com/api/v2/app/event/%d"
cardURL == "https://api.stripe.com/v1/tokens"
FixrVersion == "1.34.0"
FixrPlatformVer == "Chrome/51.0.2704.103"
UserAgent == "Mozilla/5.0 (X11; Linux x86_64) AppleWebKit/537.36 (KHTML, like Gecko) Chrome/51.0.2704.103 Safari/537.36"

SoldOutMsg == "ticket selection has sold out"
ExpiredMsg == "ticket selection has expired"
MaxMsg == "cannot purchase more than the maximum (%d)"
DecodeMsg == "JSON decoding failed"
ExecMsg == "error executing request"
GetMsg == "error creating GET request"
LogonMsg == "error logging on"
EventMsg == "error getting event"
PromoMsg == "error getting promo code"
BookMsg == "error booking ticket"

(***************************************************************************)
(* Errors                                                                  *)
(***************************************************************************)
nilErr == <<>>

\* errors.New(msg)
New(msg) == <<msg>>

\* errors.Wrap(err, msg): nil stays nil, otherwise "msg: err"
Wrap(err, msg) == IF err = nilErr THEN nilErr ELSE <<msg>> \o err

\* fmt.Errorf(format, n) with one %d verb
Errorf(format, n) == <<format, ToString(n)>>

Mentions(err, text) == \E i \in 1..Len(err) : err[i] = text

(***************************************************************************)
(* The decode targets.  An object is a record over the Go field names of   *)
(* its struct; Tags gives, per struct, the JSON key of each decodable      *)
(* field.                                                                  *)
(***************************************************************************)
ZeroEvent == [ID |-> 0, Name |-> "", Tickets |-> <<>>, Error |-> ""]

ZeroPromoCode ==
    [Error |-> "", Code |-> "", Price |-> 0, BookingFee |-> 0,
     Currency |-> "", Max |-> 0, Remaining |-> 0]

ZeroBooking ==
    [Error |-> "", Event |-> ZeroEvent, Name |-> "", PDF |-> "", State |-> 0]

\* NewClient(email)
NewClient(email) ==
    [Error |-> "", Email |-> email, FirstName |-> "", LastName |-> "",
     MagicURL |-> "", AuthToken |-> "", StripeUser |-> ""]

Tags(type) ==
    CASE type = "Client" ->
           [message |-> "Error", first_name |-> "FirstName",
            last_name |-> "LastName", magic_login_url |-> "MagicURL",
            auth_token |-> "AuthToken", stripe_user |-> "StripeUser"]
      [] type = "Event" ->
           [id |-> "ID", name |-> "Name", tickets |-> "Tickets",
            detail |-> "Error"]
      [] type = "PromoCode" ->
           [message |-> "Error", code |-> "Code", price |-> "Price",
            booking_fee |-> "BookingFee", currency |-> "Currency",
            max_per_user |-> "Max", remaining |-> "Remaining"]
      [] type = "Booking" ->
           [message |-> "Error", event |-> "Event",
            user_full_name |-> "Name", pdf |-> "PDF", state |-> "State"]

\* the struct type of a field that is itself a struct ("" for a scalar)
StructOf(type, field) ==
    IF type = "Booking" /\ field = "Event" THEN "Event" ELSE ""

\* the JSON key under which a struct carries its server-reported error
ErrKey(type) == CHOOSE k \in DOMAIN Tags(type) : Tags(type)[k] = "Error"

\* encoding/json into a struct: a key of the JSON object that names a
\* field overwrites that field, a nested object is decoded into the nested
\* struct, every other field keeps the value it had, unknown keys are
\* skipped.
RECURSIVE decodeObject(_, _, _)
decodeObject(obj, type, fields) ==
    [f \in DOMAIN obj |->
        LET ks == {k \in DOMAIN fields \cap DOMAIN Tags(type) :
                      Tags(type)[k] = f}
        IN  IF ks = {} THEN obj[f]
            ELSE LET k == CHOOSE k \in ks : TRUE
                 IN  IF StructOf(type, f) # ""
                     THEN decodeObject(obj[f], StructOf(type, f), fields[k])
                     ELSE fields[k]]

\* json.NewDecoder(body).Decode(obj).  A body that is not valid JSON is
\* rejected before anything is written.  A valid object whose value for a
\* known key has the wrong JSON type is decoded as far as possible: that
\* key is skipped, the others are written, and the type error is returned.
jsonDecode(obj, type, body) ==
    IF ~body.syntax
    THEN [obj |-> obj, err |-> New("invalid character")]
    ELSE [obj |-> decodeObject(obj, type, body.fields),
          err |-> IF body.badType \cap DOMAIN Tags(type) # {}
                  THEN New("json: cannot unmarshal")
                  ELSE nilErr]

\* (a *apiError) error() and (e *Event) error()
error(obj) == IF Len(obj.Error) > 0 THEN New(obj.Error) ELSE nilErr

\* clearError() that leaves the field as it is
clearError_Noop(obj) == obj

\* (a *apiError) clearError() and (e *Event) clearError()
clearError(obj) == [obj EXCEPT !.Error = ""]

(***************************************************************************)
(* Book's local rules (Book, lines 215-239)                                *)
(***************************************************************************)
\* the flag map with the two messages attached to the wrong flags
flagMap_Swapped(ticket) ==
    [k \in {ticket.SoldOut, ticket.Expired} |->
        IF k = ticket.Expired THEN SoldOutMsg ELSE ExpiredMsg]

\* the map literal map[bool]string{ticket.SoldOut: ..., ticket.Expired: ...}:
\* the two entries are stored in source order, so when both flags have the
\* same value the second entry overwrites the first and the map has one key.
flagMap(ticket) ==
    [k \in {ticket.SoldOut, ticket.Expired} |->
        IF k = ticket.Expired THEN ExpiredMsg ELSE SoldOutMsg]

\* the orders in which "range" may visit the keys of m
Orders(m) ==
    {o \in UNION {[1..n -> DOMAIN m] : n \in 1..2} :
        /\ Len(o) = Cardinality(DOMAIN m)
        /\ \A i, j \in 1..Len(o) : i # j => o[i] # o[j]}

\* the loop returning the message of the first key visited as soon as
\* some flag is set
rangeFlags_FirstVisited(m, order) ==
    IF \E i \in 1..Len(order) : order[i] THEN New(m[order[1]]) ELSE nilErr

\* for t, msg := range m { if t { return nil, errors.New(msg) } }
rangeFlags(m, order) ==
    LET hits == {i \in 1..Len(order) : order[i]}
    IN  IF hits = {} THEN nilErr
        ELSE New(m[order[CHOOSE i \in hits : \A j \in hits : i <= j]])

\* the validation without the check of the per-user maximum
validate_NoMax(ticket, amount, order) == rangeFlags(flagMap(ticket), order)

\* the validation with ticket.Invalid checked as well
validate_ChecksInvalid(ticket, amount, order) ==
    LET e == rangeFlags(flagMap(ticket), order)
    IN  IF e # nilErr THEN e
        ELSE IF ticket.Invalid THEN New("ticket selection is not yet valid")
        ELSE IF amount > ticket.Max THEN Errorf(MaxMsg, ticket.Max)
        ELSE nilErr

\* the validation of Book: the flag loop, then the per-user maximum
validate(ticket, amount, order) ==
    LET e == rangeFlags(flagMap(ticket), order)
    IN  IF e # nilErr THEN e
        ELSE IF amount > ticket.Max THEN Errorf(MaxMsg, ticket.Max)
        ELSE nilErr

\* the key decided on the promo's price when a promo is given
needsKey_Promo(ticket, promo) ==
    IF promo.isNil THEN ticket.BookingFee + ticket.Price > 0
    ELSE promo.BookingFee + promo.Price > 0

\* if ticket.BookingFee+ticket.Price > 0
needsKey(ticket, promo) == ticket.BookingFee + ticket.Price > 0

\* genKey(): the n-th key handed out by the key generator; every call
\* yields a value not handed out before
genKey(n) == ToString(n)

\* the payload with promo_code left out for an empty code rather than for
\* a nil promo
bookPayload_EmptyCode(ticket, amount, promo, key) ==
    (IF promo.Code = "" THEN <<>> ELSE "promo_code" :> promo.Code)
    @@ (IF key = "" THEN <<>> ELSE "purchase_key" :> key)
    @@ ("ticket_id" :> ticket.ID) @@ ("amount" :> amount)

\* the payload Book sends; key is "" when no purchase key was generated
bookPayload(ticket, amount, promo, key) ==
    (IF promo.isNil THEN <<>> ELSE "promo_code" :> promo.Code)
    @@ (IF key = "" THEN <<>> ELSE "purchase_key" :> key)
    @@ ("ticket_id" :> ticket.ID) @@ ("amount" :> amount)

\* the payload Logon sends
logonPayload(email, pass) == ("email" :> email) @@ ("password" :> pass)

\* jsonifyPayload(pl): the payload as the request body; the fixed field
\* sets of Logon and Book always encode
jsonifyPayload(pl) == [err |-> nilErr, data |-> pl]

(***************************************************************************)
(* The dispatcher (get, post, req)                                         *)
(***************************************************************************)
\* fmt.Sprintf(format, args...) of a URL: the format and its arguments
Sprintf(format, args) == <<format>> \o args

BadCode == "%zz"

\* http.NewRequest rejects a URL that does not parse (a bad % escape)
newRequestFails(url) == \E i \in 1..Len(url) : url[i] = BadCode

\* the headers with the Authorization header left out for an empty token
headers_SkipEmptyToken(url, auth, token) ==
    ("User-Agent" :> UserAgent)
    @@ (IF auth /\ token # "" THEN "Authorization" :> <<"Token", token>>
        ELSE <<>>)
    @@ (IF url = <<cardURL>>
        THEN "Content-Type" :> "application/x-www-form-urlencoded"
        ELSE ("Content-Type" :> "application/json")
             @@ ("FIXR-Platform" :> "web")
             @@ ("FIXR-Platform-Version" :> FixrPlatformVer)
             @@ ("FIXR-App-Version" :> FixrVersion))

\* the headers with the vendor headers set through Header.Set, which
\* canonicalises their names
headers_Canonical(url, auth, token) ==
    ("User-Agent" :> UserAgent)
    @@ (IF auth THEN "Authorization" :> <<"Token", token>> ELSE <<>>)
    @@ (IF url = <<cardURL>>
        THEN "Content-Type" :> "application/x-www-form-urlencoded"
        ELSE ("Content-Type" :> "application/json")
             @@ ("Fixr-Platform" :> "web")
             @@ ("Fixr-Platform-Version" :> FixrPlatformVer)
             @@ ("Fixr-App-Version" :> FixrVersion))

\* the headers req() sets on a request to url
headers(url, auth, token) ==
    ("User-Agent" :> UserAgent)
    @@ (IF auth THEN "Authorization" :> <<"Token", token>> ELSE <<>>)
    @@ (IF url = <<cardURL>>
        THEN "Content-Type" :> "application/x-www-form-urlencoded"
        ELSE ("Content-Type" :> "application/json")
             @@ ("FIXR-Platform" :> "web")
             @@ ("FIXR-Platform-Version" :> FixrPlatformVer)
             @@ ("FIXR-App-Version" :> FixrVersion))

\* the request that req() hands to httpClient.Do
req(method, url, data, auth, token) ==
    [method |-> method, url |-> url, data |-> data,
     headers |-> headers(url, auth, token)]

NoRequest == [method |-> "", url |-> <<>>, data |-> <<>>, headers |-> <<>>]

(***************************************************************************)
(* The operations and their decode targets                                 *)
(***************************************************************************)
Ops == {"Logon", "Event", "Promo", "Book"}

\* Event handing the Client, not its fresh Event, to get
decodesIntoClient_Event(op) == op \in {"Logon", "Event"}

\* Promo handing the Client, not its fresh PromoCode, to get
decodesIntoClient_Promo(op) == op \in {"Logon", "Promo"}

\* Logon passes the Client itself as the decode target (line 186)
decodesIntoClient(op) == op = "Logon"

TypeOf(op) ==
    CASE op = "Logon" -> "Client"
      [] op = "Event" -> "Event"
      [] op = "Promo" -> "PromoCode"
      [] op = "Book" -> "Booking"

\* the fresh value each operation allocates for its result
Zero(op) ==
    CASE op = "Logon" -> <<>>
      [] op = "Event" -> ZeroEvent
      [] op = "Promo" -> ZeroPromoCode
      [] op = "Book" -> ZeroBooking

ContextMsg(op) ==
    CASE op = "Logon" -> LogonMsg
      [] op = "Event" -> EventMsg
      [] op = "Promo" -> PromoMsg
      [] op = "Book" -> BookMsg

\* the operation returning the address of its value also next to an error
opReturn_KeepsResult(op, err) ==
    [result |-> IF op = "Logon" THEN "none" ELSE "obj",
     err |-> Wrap(err, ContextMsg(op))]

\* what the operation returns once get/post has returned err: the wrapped
\* error and no result, or the address of the decoded value
opReturn(op, err) ==
    IF err # nilErr
    THEN [result |-> IF op = "Logon" THEN "none" ELSE "nil",
          err |-> Wrap(err, ContextMsg(op))]
    ELSE [result |-> IF op = "Logon" THEN "none" ELSE "obj",
          err |-> nilErr]

(***************************************************************************)
(* Inputs                                                                  *)
(***************************************************************************)
Email == "user@example.com"
Passwords == {"secret"}
EventIDs == {7}
Codes == {"SAVE10", BadCode}

Tickets ==
    [ID : {7}, Name : {"Early bird"}, Type : {1}, Currency : {"GBP"},
     Price : {0, 10}, BookingFee : {0, -10}, Max : {0, 3},
     SoldOut : BOOLEAN, Expired : BOOLEAN, Invalid : BOOLEAN]

Amounts == {1, 5}

NilPromo == [isNil |-> TRUE, Code |-> "", Price |-> 0, BookingFee |-> 0]
Promos ==
    {NilPromo,
     [isNil |-> FALSE, Code |-> "SAVE10", Price |-> 5, BookingFee |-> 1],
     [isNil |-> FALSE, Code |-> "", Price |-> 0, BookingFee |-> 0]}

NoArgs ==
    [pass |-> "", id |-> 0, ticketID |-> 0, code |-> "",
     ticket |-> CHOOSE tk \in Tickets : TRUE, amount |-> 0,
     promo |-> NilPromo]

\* response bodies: syntax says whether the body is valid JSON, fields are
\* the keys of the object with a value of the right JSON type, badType the
\* keys whose value has the wrong JSON type
Opt(k, vals) == {<<>>} \cup {k :> v : v \in vals}

SyntaxErrorBody == [syntax |-> FALSE, fields |-> <<>>, badType |-> {}]

Objects(fieldSets, bad) ==
    [syntax : {TRUE}, fields : fieldSets, badType : {{}, {bad}}]
      \cup {SyntaxErrorBody}

Bodies(op) ==
    CASE op = "Logon" ->
           Objects({m @@ a @@ p :
                      m \in Opt("message", {"", "bad credentials"}),
                      a \in Opt("auth_token", {"T1", "T2"}),
                      p \in {<<>>, [first_name |-> "Ann", last_name |-> "Lee",
                                    stripe_user |-> "cus_1"]}},
                   "magic_login_url")
      [] op = "Event" ->
           Objects({d @@ m @@ p :
                      d \in Opt("detail", {"", "Not found."}),
                      m \in Opt("message", {"boom"}),
                      p \in {<<>>, [id |-> 7, name |-> "Gig"]}},
                   "tickets")
      [] op = "Promo" ->
           Objects({m @@ p :
                      m \in Opt("message", {"", "Invalid code"}),
                      p \in {<<>>, [code |-> "SAVE10", price |-> 5,
                                    booking_fee |-> 1]}},
                   "remaining")
      [] op = "Book" ->
           Objects({m @@ e @@ [pdf |-> "doc", state |-> 1] :
                      m \in Opt("message", {"", "Payment failed"}),
                      e \in Opt("event", {[detail |-> "gone"]})},
                   "user_full_name")

NoBody == SyntaxErrorBody

(***************************************************************************)
(* State                                                                   *)
(*   client    the one Client value                                        *)
(*   pc        where each caller is in its call                            *)
(*   call      each caller's current (or last) call: its arguments, the    *)
(*             request it handed to the transport, the response body, the  *)
(*             freshly allocated result value, the error inside get/post   *)
(*             and what the operation returned                             *)
(*   keyCtr    number of keys the key generator has handed out             *)
(*   sentKeys  the purchase keys of the booking requests sent so far       *)
(*   logonOK   some Logon has returned a nil error                         *)
(***************************************************************************)
NewCall(op, args) ==
    [op |-> op, args |-> args, pre |-> client,
     request |-> NoRequest, nreq |-> 0,
     responded |-> FALSE, body |-> NoBody, bodyOpen |-> FALSE, closes |-> 0,
     obj |-> Zero(op), err |-> nilErr,
     result |-> "none", retErr |-> nilErr, keyGen |-> 0, keys0 |-> keyCtr]

Init ==
    /\ client = NewClient(Email)
    /\ keyCtr = 0
    /\ pc = [t \in Callers |-> "idle"]
    /\ call = [t \in Callers |-> NewCall("Logon", NoArgs)]
    /\ sentKeys = <<>>
    /\ logonOK = FALSE

\* a call that starts only while no other caller's call is in progress, as
\* under a lock held for the length of a call
Idle_Exclusive(t) ==
    /\ pc[t] = "idle"
    /\ \A u \in Callers \ {t} : pc[u] \in {"idle", "done"}

\* a caller may start a call whenever it is not inside one: nothing in the
\* Client or in req makes a call wait for another
Idle(t) == pc[t] = "idle"

\* the call of caller t hands request r to httpClient.Do
Do(c, r) == [c EXCEPT !.request = r, !.nreq = @ + 1]

\* the call of caller t returns without having reached the transport
Fail(c, e) == [c EXCEPT !.result = IF c.op = "Logon" THEN "none" ELSE "nil",
                        !.retErr = e]

\* Logon(pass) up to httpClient.Do (lines 177-186, 135-140, 154-168)
LogonCall(t, pass) ==
    /\ Idle(t)
    /\ LET c == NewCall("Logon", [NoArgs EXCEPT !.pass = pass])
           j == jsonifyPayload(logonPayload(client.Email, pass))
       IN  /\ call' = [call EXCEPT ![t] =
                          Do(c, req("POST", <<loginURL>>, j.data, FALSE,
                                    client.AuthToken))]
           /\ pc' = [pc EXCEPT ![t] = "do"]
    /\ UNCHANGED <<client, keyCtr, sentKeys, logonOK>>

\* Event(id) up to httpClient.Do (lines 194-196, 127-132, 154-168)
EventCall(t, id) ==
    /\ Idle(t)
    /\ LET c == NewCall("Event", [NoArgs EXCEPT !.id = id])
       IN  /\ call' = [call EXCEPT ![t] =
                          Do(c, req("GET", Sprintf(eventURL, <<ToString(id)>>),
                                    <<>>, FALSE, client.AuthToken))]
           /\ pc' = [pc EXCEPT ![t] = "do"]
    /\ UNCHANGED <<client, keyCtr, sentKeys, logonOK>>

\* Promo(ticketID, code) up to httpClient.Do, or to its return when the
\* request cannot be created (lines 205-208, 127-132, 154-168)
PromoCall(t, ticketID, code) ==
    /\ Idle(t)
    /\ LET c == NewCall("Promo",
                        [NoArgs EXCEPT !.ticketID = ticketID, !.code = code])
           url == Sprintf(promoURL, <<ToString(ticketID), code>>)
       IN  IF newRequestFails(url)
           THEN /\ call' = [call EXCEPT ![t] =
                               Fail(c, opReturn("Promo", New(GetMsg)).err)]
                /\ pc' = [pc EXCEPT ![t] = "done"]
           ELSE /\ call' = [call EXCEPT ![t] =
                               Do(c, req("GET", url, <<>>, TRUE,
                                         client.AuthToken))]
                /\ pc' = [pc EXCEPT ![t] = "do"]
    /\ UNCHANGED <<client, keyCtr, sentKeys, logonOK>>

\* Book(ticket, amount, promo) up to httpClient.Do, or to its return when
\* the validation fails; order is the order in which range visits the
\* flag map (lines 215-244, 135-140, 154-168)
BookCall(t, ticket, amount, promo, order) ==
    /\ Idle(t)
    /\ LET c == NewCall("Book", [NoArgs EXCEPT !.ticket = ticket,
                                               !.amount = amount,
                                               !.promo = promo])
           verr == validate(ticket, amount, order)
           paid == needsKey(ticket, promo)
           key == IF paid THEN genKey(keyCtr + 1) ELSE ""
           j == jsonifyPayload(bookPayload(ticket, amount, promo, key))
       IN  IF verr # nilErr
           THEN /\ call' = [call EXCEPT ![t] = Fail(c, verr)]
                /\ pc' = [pc EXCEPT ![t] = "done"]
                /\ UNCHANGED <<keyCtr, sentKeys>>
           ELSE /\ paid => keyCtr < MaxKeys
                /\ call' = [call EXCEPT ![t] =
                               [Do(c, req("POST", <<bookingURL>>, j.data, TRUE,
                                          client.AuthToken))
                                  EXCEPT !.keyGen = IF paid THEN 1 ELSE 0]]
                /\ pc' = [pc EXCEPT ![t] = "do"]
                /\ keyCtr' = IF paid THEN keyCtr + 1 ELSE keyCtr
                /\ sentKeys' = IF "purchase_key" \in DOMAIN j.data
                               THEN Append(sentKeys, j.data["purchase_key"])
                               ELSE sentKeys
    /\ UNCHANGED <<client, logonOK>>

\* a transport failure answered by handing the request to the transport
\* once more
DoFail_Retry(t) ==
    /\ pc[t] = "do"
    /\ call' = [call EXCEPT ![t] = Do(@, @.request)]
    /\ UNCHANGED <<pc, client, keyCtr, sentKeys, logonOK>>

\* httpClient.Do fails: req returns the wrapped error (lines 168-171)
DoFail(t) ==
    /\ pc[t] = "do"
    /\ call' = [call EXCEPT ![t].err = Wrap(New("connection failed"), ExecMsg)]
    /\ pc' = [pc EXCEPT ![t] = "ret"]
    /\ UNCHANGED <<client, keyCtr, sentKeys, logonOK>>

\* httpClient.Do returns a response with an open body (lines 168, 172)
DoRespond(t, body) ==
    /\ pc[t] = "do"
    /\ call' = [call EXCEPT ![t].responded = TRUE, ![t].body = body,
                            ![t].bodyOpen = TRUE]
    /\ pc' = [pc EXCEPT ![t] = "decode"]
    /\ UNCHANGED <<client, keyCtr, sentKeys, logonOK>>

\* req returning a decode error without closing the body
afterDecode_Leak(err) == IF err # nilErr THEN "ret" ELSE "check"

\* where the call continues after json's Decode returned err: on an error
\* decodeJSONResponse returns to req, whose deferred Body.Close() runs
\* (lines 144-146, 172-173); otherwise the error() check follows
afterDecode(err) == IF err # nilErr THEN "close" ELSE "check"

\* the value the call of caller t decodes into
Target(t) == IF decodesIntoClient(call[t].op) THEN client ELSE call[t].obj

\* decodeJSONResponse, the Decode (lines 144-146): on an error the function
\* returns at once, before the clearError is deferred
Decode(t) ==
    /\ pc[t] = "decode"
    /\ LET d == jsonDecode(Target(t), TypeOf(call[t].op), call[t].body)
       IN  /\ IF decodesIntoClient(call[t].op)
              THEN /\ client' = d.obj
                   /\ call' = [call EXCEPT ![t].err = Wrap(d.err, DecodeMsg)]
              ELSE /\ call' = [call EXCEPT ![t].obj = d.obj,
                                           ![t].err = Wrap(d.err, DecodeMsg)]
                   /\ UNCHANGED client
           /\ pc' = [pc EXCEPT ![t] = afterDecode(d.err)]
    /\ UNCHANGED <<keyCtr, sentKeys, logonOK>>

\* decodeJSONResponse, the error() check (lines 147-151)
CheckError(t) ==
    /\ pc[t] = "check"
    /\ call' = [call EXCEPT ![t].err = error(Target(t))]
    /\ pc' = [pc EXCEPT ![t] = "clear"]
    /\ UNCHANGED <<client, keyCtr, sentKeys, logonOK>>

\* decodeJSONResponse, the deferred obj.clearError() (line 147)
ClearError(t) ==
    /\ pc[t] = "clear"
    /\ IF decodesIntoClient(call[t].op)
       THEN /\ client' = clearError(client)
            /\ UNCHANGED call
       ELSE /\ call' = [call EXCEPT ![t].obj = clearError(@)]
            /\ UNCHANGED client
    /\ pc' = [pc EXCEPT ![t] = "close"]
    /\ UNCHANGED <<keyCtr, sentKeys, logonOK>>

\* req, the deferred resp.Body.Close() (line 172)
CloseBody(t) ==
    /\ pc[t] = "close"
    /\ call' = [call EXCEPT ![t].bodyOpen = FALSE, ![t].closes = @ + 1]
    /\ pc' = [pc EXCEPT ![t] = "ret"]
    /\ UNCHANGED <<client, keyCtr, sentKeys, logonOK>>

\* the operation returns what post/get returned, wrapped (lines 186-189,
\* 196-199, 207-210, 244-247)
Return(t) ==
    /\ pc[t] = "ret"
    /\ LET r == opReturn(call[t].op, call[t].err)
       IN  /\ call' = [call EXCEPT ![t].result = r.result,
                                   ![t].retErr = r.err]
           /\ logonOK' = (logonOK \/ (call[t].op = "Logon" /\ r.err = nilErr))
    /\ pc' = [pc EXCEPT ![t] = "done"]
    /\ UNCHANGED <<client, keyCtr, sentKeys>>

\* the caller has taken the returned values and is free to call again; the
\* locals of the finished call are gone
Release(t) ==
    /\ pc[t] = "done"
    /\ call' = [call EXCEPT ![t] = NewCall("Logon", NoArgs)]
    /\ pc' = [pc EXCEPT ![t] = "idle"]
    /\ UNCHANGED <<client, keyCtr, sentKeys, logonOK>>

\* one step of caller t
Step(t) ==
    \/ \E pass \in Passwords : LogonCall(t, pass)
    \/ \E id \in EventIDs : EventCall(t, id)
    \/ \E ticketID \in EventIDs, code \in Codes : PromoCall(t, ticketID, code)
    \/ \E ticket \in Tickets, amount \in Amounts, promo \in Promos :
          \E order \in Orders(flagMap(ticket)) :
             BookCall(t, ticket, amount, promo, order)
    \/ DoFail(t)
    \/ \E body \in Bodies(call[t].op) : DoRespond(t, body)
    \/ Decode(t)
    \/ CheckError(t)
    \/ ClearError(t)
    \/ CloseBody(t)
    \/ Return(t)
    \/ Release(t)

\* one caller uses the Client, one call at a time
Next == \E t \in SeqCallers : Step(t)

Spec == Init /\ [][Next]_vars

(***************************************************************************)
(* Two callers using the one Client at the same time, without any          *)
(* synchronisation between them: the steps of their calls interleave.      *)
(* The inputs are a part of those of the sequential specification.         *)
(***************************************************************************)
ConcCallers == {1, 2}

ConcTickets ==
    {tk \in Tickets : /\ tk.Price = 0 /\ tk.BookingFee = 0 /\ tk.Max = 3
                      /\ ~tk.Expired /\ ~tk.Invalid}

ConcBodies(op) ==
    {b \in Bodies(op) :
        /\ b.syntax
        /\ b.badType = {}
        /\ CASE op = "Logon" ->
                  b.fields \in {[auth_token |-> "T1"],
                                [message |-> "bad credentials"]}
             [] op = "Event" ->
                  b.fields \in {[id |-> 7, name |-> "Gig"],
                                [detail |-> "Not found."]}
             [] op = "Promo" ->
                  b.fields \in {[code |-> "SAVE10", price |-> 5,
                                 booking_fee |-> 1],
                                [message |-> "Invalid code"]}
             [] op = "Book" ->
                  b.fields \in {[pdf |-> "doc", state |-> 1],
                                [message |-> "Payment failed",
                                 pdf |-> "doc", state |-> 1]}}

StepConc(t) ==
    \/ \E pass \in Passwords : LogonCall(t, pass)
    \/ \E id \in EventIDs : EventCall(t, id)
    \/ \E ticketID \in EventIDs : PromoCall(t, ticketID, "SAVE10")
    \/ \E ticket \in ConcTickets :
          \E order \in Orders(flagMap(ticket)) :
             BookCall(t, ticket, 1, NilPromo, order)
    \/ DoFail(t)
    \/ \E body \in ConcBodies(call[t].op) : DoRespond(t, body)
    \/ Decode(t)
    \/ CheckError(t)
    \/ ClearError(t)
    \/ CloseBody(t)
    \/ Return(t)
    \/ Release(t)

NextConc == \E t \in ConcCallers : StepConc(t)

SpecConc == Init /\ [][NextConc]_vars

(***************************************************************************)
(* Notions the properties share                                            *)
(***************************************************************************)
InProgress(t) == pc[t] \notin {"idle", "done"}

Returned(t, op) == pc[t] = "done" /\ call[t].op = op

\* the response of call c is valid JSON with values of the expected types
Parses(c) ==
    /\ c.responded
    /\ c.body.syntax
    /\ c.body.badType \cap DOMAIN Tags(TypeOf(c.op)) = {}

\* the text of the embedded error field in the response of call c ("" when
\* the field is absent)
EmbeddedText(c) ==
    LET k == ErrKey(TypeOf(c.op))
    IN  IF k \in DOMAIN c.body.fields THEN c.body.fields[k] ELSE ""

\* the ticket of call c fails Book's validation
Invalidated(c) ==
    \/ c.args.ticket.SoldOut
    \/ c.args.ticket.Expired
    \/ c.args.amount > c.args.ticket.Max

(***************************************************************************)
(* Properties                                                              *)
(***************************************************************************)

\* C1: whenever the response body of Logon, Event, Promo or Book parses and
\* its embedded error field ("message"; "detail" for Event) is non-empty,
\* the operation returns no result and a non-nil error whose message
\* contains the embedded text, and the decode target's embedded error
\* field is empty once the call has returned.
C1_EmbeddedErrorFailsCall ==
    \A t \in Callers :
        (pc[t] = "done" /\ Parses(call[t]) /\ EmbeddedText(call[t]) # "")
        => /\ call[t].result # "obj"
           /\ call[t].retErr # nilErr
           /\ Mentions(call[t].retErr, EmbeddedText(call[t]))
           /\ Target(t).Error = ""

C1_Witness ==
    \E t \in Callers :
        /\ Returned(t, "Event")
        /\ Parses(call[t])
        /\ EmbeddedText(call[t]) = "Not found."
        /\ "id" \in DOMAIN call[t].body.fields

\* C2: clearError() runs on the decode target on every outcome of the
\* envelope decode, so whenever no call is in progress the Client's
\* embedded error field is empty, after any sequence of Logon calls.
C2_NoStaleErrorWhenIdle ==
    (\A t \in Callers : ~InProgress(t)) => client.Error = ""

\* C3: whatever calls were made on the Client before, a well-formed
\* response whose embedded error field is empty or absent makes Logon,
\* Event, Promo and Book return a nil error and (Event, Promo, Book) a
\* non-nil result holding the decoded fields.
C3_CleanResponseSucceeds ==
    \A t \in Callers :
        (pc[t] = "done" /\ Parses(call[t]) /\ EmbeddedText(call[t]) = "")
        => /\ call[t].retErr = nilErr
           /\ call[t].op # "Logon"
              => /\ call[t].result = "obj"
                 /\ call[t].obj = decodeObject(Zero(call[t].op),
                                               TypeOf(call[t].op),
                                               call[t].body.fields)

\* C4: Book with ticket.SoldOut = true returns an error mentioning "sold
\* out" whatever the other fields are, also when ticket.Expired is true.
C4_SoldOutTakesPrecedence ==
    \A t \in Callers :
        (Returned(t, "Book") /\ call[t].args.ticket.SoldOut)
        => Mentions(call[t].retErr, SoldOutMsg)

\* C5: a Book that fails validation (sold out, expired, amount > Max)
\* returns a nil booking and an error, hands no request to the transport
\* and generates no purchase key; for amount > Max on a ticket neither
\* sold out nor expired the error carries Max; so every booking request
\* sent is for a ticket not sold out, not expired, with amount <= Max.
C5_ValidationPrecedesNetwork ==
    \A t \in Callers :
        call[t].op = "Book"
        => /\ (pc[t] = "done" /\ Invalidated(call[t]))
              => /\ call[t].result = "nil"
                 /\ call[t].retErr # nilErr
                 /\ call[t].nreq = 0
                 /\ call[t].request = NoRequest
                 /\ call[t].keyGen = 0
                 /\ keyCtr = call[t].keys0
                 /\ (~call[t].args.ticket.SoldOut
                     /\ ~call[t].args.ticket.Expired)
                    => call[t].retErr =
                          <<MaxMsg, ToString(call[t].args.ticket.Max)>>
           /\ call[t].nreq > 0 => ~Invalidated(call[t])

C5_Witness ==
    \E t \in Callers :
        /\ Returned(t, "Book")
        /\ call[t].args.amount = 5
        /\ call[t].args.ticket.Max = 3
        /\ ~call[t].args.ticket.SoldOut
        /\ ~call[t].args.ticket.Expired
        /\ call[t].args.ticket.Price = 10
        /\ call[t].nreq = 0

\* C6: a Book that passes validation sends a purchase_key exactly when
\* ticket.BookingFee + ticket.Price > 0, whatever the promo's price and
\* fee; the key is non-empty and comes from a key-generator call made in
\* this invocation, and no two booking requests carry the same key.
C6_PurchaseKeyIffPaid ==
    /\ \A t \in Callers :
          (call[t].op = "Book" /\ call[t].nreq > 0)
          => LET data == call[t].request.data
                 tk == call[t].args.ticket
             IN  /\ "purchase_key" \in DOMAIN data
                    <=> tk.BookingFee + tk.Price > 0
                 /\ "purchase_key" \in DOMAIN data
                    => /\ data["purchase_key"] # ""
                       /\ call[t].keyGen = 1
                       /\ keyCtr = call[t].keys0 + 1
                       /\ sentKeys[Len(sentKeys)] = data["purchase_key"]
                 /\ "purchase_key" \notin DOMAIN data
                    => call[t].keyGen = 0 /\ keyCtr = call[t].keys0
    /\ \A i, j \in 1..Len(sentKeys) : i # j => sentKeys[i] # sentKeys[j]

C6_Witness ==
    /\ Len(sentKeys) = 2
    /\ \E t \in Callers :
          /\ call[t].op = "Book"
          /\ pc[t] = "do"
          /\ "purchase_key" \in DOMAIN call[t].request.data
          /\ ~call[t].args.promo.isNil

C7_WitnessLater ==
    \E t \in Callers :
        /\ Returned(t, "Promo")
        /\ call[t].retErr = nilErr
        /\ client.Error # ""

\* C8: AuthToken is empty unless some earlier Logon returned a nil error:
\* a Logon that fails (transport failure, decode failure, embedded error)
\* leaves AuthToken, FirstName, LastName and StripeUser as they were.
C8_FailedLogonChangesNothing ==
    /\ ((\A t \in Callers : ~InProgress(t)) /\ client.AuthToken # "")
       => logonOK
    /\ \A t \in Callers :
          (Returned(t, "Logon") /\ call[t].retErr # nilErr)
          => /\ client.AuthToken = call[t].pre.AuthToken
             /\ client.FirstName = call[t].pre.FirstName
             /\ client.LastName = call[t].pre.LastName
             /\ client.StripeUser = call[t].pre.StripeUser

\* C9: Event, Promo and Book return a non-nil result exactly when they
\* return a nil error, and a returned result never carries a non-empty
\* embedded error field.
C9_ResultXorError ==
    \A t \in Callers :
        (pc[t] = "done" /\ call[t].op # "Logon")
        => /\ call[t].result \in {"nil", "obj"}
           /\ call[t].result = "obj" <=> call[t].retErr = nilErr
           /\ call[t].result = "obj" => call[t].obj.Error = ""

C9_Witness ==
    \E t \in Callers :
        /\ Returned(t, "Book")
        /\ call[t].result = "obj"
        /\ call[t].obj.PDF = "doc"
        /\ call[t].obj.Event.Error = "gone"
        /\ EmbeddedText(call[t]) = ""

C9_WitnessNil ==
    \E t \in Callers :
        /\ Returned(t, "Promo")
        /\ call[t].result = "nil"
        /\ call[t].responded
        /\ ~call[t].body.syntax

\* C10: the payload of a Book that passes validation holds ticket_id =
\* ticket.ID and amount = the amount argument, promo_code = promo.Code
\* when promo is non-nil, and no promo_code field when promo is nil.
C10_PayloadFields ==
    \A t \in Callers :
        (call[t].op = "Book" /\ call[t].nreq > 0)
        => LET data == call[t].request.data
               promo == call[t].args.promo
           IN  /\ data["ticket_id"] = call[t].args.ticket.ID
               /\ data["amount"] = call[t].args.amount
               /\ promo.isNil => "promo_code" \notin DOMAIN data
               /\ ~promo.isNil
                  => /\ "promo_code" \in DOMAIN data
                     /\ data["promo_code"] = promo.Code

C10_Witness ==
    \E t \in Callers :
        /\ call[t].op = "Book"
        /\ pc[t] = "do"
        /\ call[t].args.promo.Code = "SAVE10"
        /\ call[t].request.data["promo_code"] = "SAVE10"

\* C11: Book with ticket.Expired = true and ticket.SoldOut = false returns
\* an error mentioning "expired", for every amount, Max and promo, and
\* hands no request to the transport.
C11_ExpiredRejected ==
    \A t \in Callers :
        (call[t].op = "Book" /\ call[t].args.ticket.Expired
         /\ ~call[t].args.ticket.SoldOut)
        => /\ call[t].nreq = 0
           /\ call[t].request = NoRequest
           /\ pc[t] = "done"
           /\ call[t].result = "nil"
           /\ Mentions(call[t].retErr, ExpiredMsg)
           /\ ~Mentions(call[t].retErr, SoldOutMsg)

C11_Witness ==
    \E t \in Callers :
        /\ Returned(t, "Book")
        /\ call[t].args.ticket.Expired
        /\ ~call[t].args.ticket.SoldOut
        /\ call[t].args.amount = 1
        /\ call[t].args.ticket.Max = 3
        /\ ~call[t].args.promo.isNil

\* C12: every request of Promo and Book carries the Authorization header
\* "Token <t>", t being the Client's AuthToken when the call was made (the
\* empty token before any successful Logon; the request is sent all the
\* same); no request of Logon or Event carries an Authorization header,
\* also when the Client holds a token.
C12_AuthorizationHeader ==
    \A t \in Callers :
        call[t].nreq > 0
        => LET h == call[t].request.headers
           IN  /\ call[t].op \in {"Promo", "Book"}
                  => /\ "Authorization" \in DOMAIN h
                     /\ h["Authorization"] = <<"Token", call[t].pre.AuthToken>>
               /\ call[t].op \in {"Logon", "Event"}
                  => "Authorization" \notin DOMAIN h

C12_Witness ==
    \E t \in Callers :
        /\ call[t].op = "Promo"
        /\ pc[t] = "do"
        /\ client.AuthToken = ""
        /\ call[t].request.headers["Authorization"] = <<"Token", "">>

C12_WitnessLogon ==
    \E t \in Callers :
        /\ call[t].op = "Logon"
        /\ pc[t] = "do"
        /\ client.AuthToken = "T1"

\* C13: each invocation of Logon, Event, Promo or Book hands at most one
\* request to the transport; after a transport failure, a decode failure
\* or a server-reported error it returns the error and no further request
\* has been issued.
C13_AtMostOneRequest ==
    \A t \in Callers :
        /\ call[t].nreq <= 1
        /\ call[t].nreq = 0 <=> call[t].request = NoRequest
        /\ pc[t] \in {"do", "decode", "check", "clear", "close", "ret"}
           => call[t].nreq = 1
        /\ (pc[t] = "done" /\ call[t].retErr # nilErr) => call[t].nreq <= 1

C13_Witness ==
    \E t \in Callers :
        /\ Returned(t, "Book")
        /\ ~call[t].responded
        /\ call[t].nreq = 1
        /\ Mentions(call[t].retErr, ExecMsg)

\* C14: whenever the transport returns a response, its body is released
\* exactly once before the operation returns, on every exit path, and only
\* after the envelope decode (parse, error extraction, clear) has finished;
\* no body is open in a state where no call is in progress.
C14_BodyReleasedOnce ==
    \A t \in Callers :
        /\ call[t].closes <= 1
        /\ pc[t] \in {"decode", "check", "clear", "close"}
           => call[t].bodyOpen /\ call[t].closes = 0
        /\ (pc[t] \in {"ret", "done"} /\ call[t].responded)
           => ~call[t].bodyOpen /\ call[t].closes = 1
        /\ ~call[t].responded => ~call[t].bodyOpen /\ call[t].closes = 0
        /\ ~InProgress(t) => ~call[t].bodyOpen

C14_Witness ==
    \E t \in Callers :
        /\ Returned(t, "Logon")
        /\ call[t].responded
        /\ ~Parses(call[t])
        /\ call[t].body.syntax
        /\ call[t].closes = 1
        /\ ~call[t].bodyOpen

\* the key that the booking request of call c carries ("" when none)
SentKey(c) ==
    IF "purchase_key" \in DOMAIN c.request.data
    THEN c.request.data["purchase_key"] ELSE ""

\* the ticket tk with its Invalid flag reversed
FlipInvalid(tk) == [tk EXCEPT !.Invalid = ~@]

\* C15: Book's local behaviour does not depend on ticket.Invalid: what a
\* Book did on its ticket (the validation error it returned, or the
\* payload it sent) is what Book does, with the same amount, promo and
\* generated key, on the ticket that differs only in Invalid.
C15_InvalidIgnored ==
    \A t \in Callers :
        call[t].op = "Book"
        => LET c == call[t]
               tk2 == FlipInvalid(c.args.ticket)
           IN  /\ (pc[t] = "done" /\ c.nreq = 0)
                  => \E o \in Orders(flagMap(tk2)) :
                        c.retErr = validate(tk2, c.args.amount, o)
               /\ c.nreq > 0
                  => /\ \A o \in Orders(flagMap(tk2)) :
                           validate(tk2, c.args.amount, o) = nilErr
                     /\ needsKey(tk2, c.args.promo) = (SentKey(c) # "")
                     /\ c.request.data =
                           bookPayload(tk2, c.args.amount, c.args.promo,
                                       SentKey(c))

C15_Witness ==
    \E t \in Callers :
        /\ call[t].op = "Book"
        /\ pc[t] = "do"
        /\ call[t].args.ticket.Invalid
        /\ call[t].args.ticket.Price = 10
        /\ call[t].args.ticket.BookingFee = 0

\* C16: the outcome of Book's validation is the same for every order in
\* which the map built from the two flags can be visited: the error a
\* Book returned is the error under every order, and a Book that went on
\* to send its request passes under every order.
C16_OrderIrrelevant ==
    \A t \in Callers :
        call[t].op = "Book"
        => LET c == call[t]
               os == Orders(flagMap(c.args.ticket))
           IN  /\ \A o1, o2 \in os :
                     validate(c.args.ticket, c.args.amount, o1)
                        = validate(c.args.ticket, c.args.amount, o2)
               /\ (pc[t] = "done" /\ c.nreq = 0)
                  => \A o \in os :
                        c.retErr = validate(c.args.ticket, c.args.amount, o)
               /\ c.nreq > 0
                  => \A o \in os :
                        validate(c.args.ticket, c.args.amount, o) = nilErr

C16_Witness ==
    \E t \in Callers :
        /\ Returned(t, "Book")
        /\ call[t].args.ticket.SoldOut
        /\ ~call[t].args.ticket.Expired
        /\ Cardinality(Orders(flagMap(call[t].args.ticket))) = 2
        /\ call[t].retErr = New(SoldOutMsg)

\* C17: every request sent by Logon, Event, Promo and Book carries the
\* fixed User-Agent, Content-Type application/json and the vendor headers
\* FIXR-Platform = "web", FIXR-Platform-Version and FIXR-App-Version; a
\* request to the payment-tokenization endpoint, as req prepares it,
\* carries Content-Type application/x-www-form-urlencoded and none of the
\* three vendor headers.
C17_RequestHeaders ==
    /\ \A t \in Callers :
          call[t].nreq > 0
          => LET h == call[t].request.headers
             IN  /\ {"User-Agent", "Content-Type", "FIXR-Platform",
                     "FIXR-Platform-Version", "FIXR-App-Version"}
                       \subseteq DOMAIN h
                 /\ h["User-Agent"] = UserAgent
                 /\ h["Content-Type"] = "application/json"
                 /\ h["FIXR-Platform"] = "web"
                 /\ h["FIXR-Platform-Version"] = FixrPlatformVer
                 /\ h["FIXR-App-Version"] = FixrVersion
                 /\ call[t].request.url # <<cardURL>>
    /\ \A auth \in BOOLEAN :
          LET h == req("POST", <<cardURL>>, <<>>, auth,
                       client.AuthToken).headers
          IN  /\ h["User-Agent"] = UserAgent
              /\ h["Content-Type"] = "application/x-www-form-urlencoded"
              /\ DOMAIN h \cap {"FIXR-Platform", "FIXR-Platform-Version",
                                "FIXR-App-Version"} = {}

C17_Witness ==
    \E t \in Callers :
        /\ call[t].op = "Event"
        /\ pc[t] = "do"
        /\ client.AuthToken = "T2"
        /\ call[t].request.headers["FIXR-App-Version"] = "1.34.0"

\* the operation of the call in which caller t takes this step
StepOp(t) == IF pc[t] = "idle" THEN call'[t].op ELSE call[t].op

\* what a call that reached the transport returns, computed from its own
\* response alone
OwnOutcome(c) ==
    IF ~c.responded
    THEN [ret |-> opReturn(c.op, Wrap(New("connection failed"), ExecMsg)),
          obj |-> Zero(c.op)]
    ELSE LET d == jsonDecode(Zero(c.op), TypeOf(c.op), c.body)
         IN  IF d.err # nilErr
             THEN [ret |-> opReturn(c.op, Wrap(d.err, DecodeMsg)),
                   obj |-> d.obj]
             ELSE [ret |-> opReturn(c.op, error(d.obj)),
                   obj |-> clearError(d.obj)]

\* a step of an Event, Promo or Book call leaves the Client and the other
\* callers' values as they are
C18_StepLeavesOthersAlone ==
    \A t \in Callers :
        (pc'[t] # pc[t] /\ StepOp(t) # "Logon")
        => /\ client' = client
           /\ \A u \in Callers \ {t} : call'[u] = call[u]

\* C18: Event, Promo and Book never modify the Client and write only to
\* the result value allocated in their own call; so under every
\* interleaving of concurrent calls on one Client no step of such a call
\* writes what another call uses, and what the call returns is determined
\* by its own arguments and response.
C18_ReadOnlyCallsIndependent ==
    /\ [][C18_StepLeavesOthersAlone]_vars
    /\ [](\A t \in Callers :
            (pc[t] = "done" /\ call[t].op # "Logon" /\ call[t].nreq > 0)
            => /\ call[t].result = OwnOutcome(call[t]).ret.result
               /\ call[t].retErr = OwnOutcome(call[t]).ret.err
               /\ call[t].obj = OwnOutcome(call[t]).obj)

C18_Witness ==
    \E t, u \in Callers :
        /\ t # u
        /\ call[t].op = "Promo" /\ pc[t] = "clear"
        /\ call[t].obj.Error = "Invalid code"
        /\ call[u].op = "Book" /\ pc[u] = "check"
        /\ call[u].obj.PDF = "doc"

\* the next step of caller t's Logon writes the Client's AuthToken or
\* embedded error field
LogonWrites(t) == call[t].op = "Logon" /\ pc[t] \in {"decode", "clear"}

\* the next step of caller t's Logon reads or writes one of those fields
LogonAccesses(t) ==
    call[t].op = "Logon" /\ pc[t] \in {"decode", "check", "clear"}

\* C19: without external synchronisation a Logon that runs concurrently
\* with another Logon, or with a Promo or Book, races: whenever a Logon is
\* about to write the Client's AuthToken or embedded error field, nothing
\* holds back another caller's access to the same field - its own Logon
\* step on the field, or the start of a Promo, Book or Logon, which reads
\* AuthToken when req builds the headers.
C19_LogonRaces ==
    \A t, u \in ConcCallers :
        (t # u /\ LogonWrites(t))
        => /\ ENABLED (Decode(t) \/ ClearError(t))
           /\ LogonAccesses(u)
              => ENABLED (Decode(u) \/ CheckError(u) \/ ClearError(u))
           /\ pc[u] = "idle"
              => /\ ENABLED PromoCall(u, 7, "SAVE10")
                 /\ ENABLED BookCall(u, CHOOSE tk \in ConcTickets : ~tk.SoldOut,
                                     1, NilPromo, <<FALSE>>)
                 /\ ENABLED LogonCall(u, "secret")

C19_Witness ==
    \E t, u \in ConcCallers :
        /\ t # u
        /\ call[t].op = "Logon" /\ pc[t] = "decode"
        /\ EmbeddedText(call[t]) = "bad credentials"
        /\ call[u].op = "Logon" /\ pc[u] = "check"
        /\ call[u].pre.Error = ""
        /\ EmbeddedText(call[u]) = ""

\* a Logon whose own response carries no error has returned the error of
\* the other caller's Logon
C19_WitnessReports ==
    \E t, u \in ConcCallers :
        /\ t # u
        /\ Returned(u, "Logon")
        /\ Parses(call[u]) /\ EmbeddedText(call[u]) = ""
        /\ call[u].pre.Error = ""
        /\ Mentions(call[u].retErr, "bad credentials")
        /\ call[t].op = "Logon" /\ InProgress(t)

\* a Logon whose response carries an error has returned nil: the other
\* caller's Logon erased the field before it was checked
C19_WitnessErased ==
    \E t \in ConcCallers :
        /\ Returned(t, "Logon")
        /\ Parses(call[t]) /\ EmbeddedText(call[t]) = "bad credentials"
        /\ call[t].retErr = nilErr

\* a Promo request carries the token of a Logon that has not returned
C19_WitnessToken ==
    \E t, u \in ConcCallers :
        /\ t # u
        /\ call[u].op = "Promo" /\ pc[u] = "do"
        /\ call[u].request.headers["Authorization"] = <<"Token", "T1">>
        /\ ~logonOK
        /\ call[t].op = "Logon" /\ pc[t] = "check"

====
